---- MODULE Spec2Model ----
(***************************************************************************)
(* rust_course_helper: the checker of a student's course repository.       *)
(* main runs validate_lab_name and then the seven checks of CHECKS against *)
(* one Context, collecting Diag records in Diags and printing the report.  *)
(*                                                                         *)
(* A text (String, &str, Utf8PathBuf) is a sequence of one-character       *)
(* strings.  Option<T> is a sequence of length 0 (None) or 1 (Some).       *)
(* Whatever the file system, git and cargo answer is an input of the step  *)
(* that asks for it.                                                       *)
(***************************************************************************)
EXTENDS Integers, Sequences, FiniteSets, TLC

\* the character ` , which a TLA+ string cannot hold
Backquote == "U+0060"

None == <<>>
Some(x) == <<x>>

----------------------------------------------------------------------------
(* std text operations, computed on characters *)

\* str::starts_with
StartsWith(s, p) == Len(p) <= Len(s) /\ SubSeq(s, 1, Len(p)) = p

\* str::ends_with
EndsWith(s, p) == Len(p) <= Len(s) /\ SubSeq(s, Len(s) - Len(p) + 1, Len(s)) = p

\* str::contains
Contains(s, p) == \E i \in 0..(Len(s) - Len(p)) : SubSeq(s, i + 1, i + Len(p)) = p

\* one line of str::lines: a final "\n" is removed, and then a final "\r"
StripLineEnding(piece) ==
    IF ~EndsWith(piece, <<"\n">>) THEN piece
    ELSE LET l == SubSeq(piece, 1, Len(piece) - 1)
         IN IF EndsWith(l, <<"\r">>) THEN SubSeq(l, 1, Len(l) - 1) ELSE l

\* str::lines: the text is cut after every "\n" (split_inclusive), no piece is
\* made of an empty rest, and each piece loses its line ending
RECURSIVE Lines(_)
Lines(s) ==
    IF s = <<>> THEN <<>>
    ELSE LET nl == {i \in 1..Len(s) : s[i] = "\n"}
             cut == IF nl = {} THEN Len(s) ELSE CHOOSE i \in nl : \A j \in nl : i <= j
         IN <<StripLineEnding(SubSeq(s, 1, cut))>> \o Lines(SubSeq(s, cut + 1, Len(s)))

\* [T]::join(sep) on texts
RECURSIVE Join(_, _)
Join(parts, sep) ==
    IF parts = <<>> THEN <<>>
    ELSE IF Len(parts) = 1 THEN parts[1]
    ELSE parts[1] \o sep \o Join(Tail(parts), sep)

Digit(d) == <<"0", "1", "2", "3", "4", "5", "6", "7", "8", "9">>[d + 1]

\* Display of an unsigned integer: its decimal digits
RECURSIVE UsizeDisplay(_)
UsizeDisplay(n) == IF n < 10 THEN <<Digit(n)>> ELSE UsizeDisplay(n \div 10) \o <<Digit(n % 10)>>

\* Utf8PathBuf::join (PathBuf::push on Unix): an absolute component replaces
\* the path, otherwise a separator is put in unless the path is empty or ends
\* with one
PathJoin(base, comp) ==
    IF StartsWith(comp, <<"/">>) THEN comp
    ELSE IF base # <<>> /\ base[Len(base)] # "/" THEN base \o <<"/">> \o comp
    ELSE base \o comp

\* Display of std::process::ExitStatus for a process that exited with a code
ExitStatusDisplay(code) ==
    <<"e","x","i","t"," ","s","t","a","t","u","s",":"," ">> \o UsizeDisplay(code)

\* ExitStatus::success
Success(code) == code = 0

----------------------------------------------------------------------------
(* main.rs *)

Diag(text, path, help) == [text |-> text, path |-> path, help |-> help]

\* Diags::add with a bug: the Diag is put in front
DiagsAddFront(problems, text, path, help) == <<Diag(text, path, help)>> \o problems

\* Diags::add: the Diag is pushed at the end; the CheckError it returns
\* carries nothing
DiagsAdd(problems, text, path, help) == Append(problems, Diag(text, path, help))

\* one problem of Diags::print: the error line, then the path and the help
\* lines of a Diag that has them (the colours of the labels are left out)
PrintProblem(problem) ==
    <<<<"e","r","r","o","r",":"," ">> \o problem.text>>
    \o (IF problem.path # None THEN <<<<"p","a","t","h",":"," ">> \o problem.path[1]>> ELSE <<>>)
    \o (IF problem.help # None THEN <<<<"h","e","l","p",":"," ">> \o problem.help[1]>> ELSE <<>>)

RECURSIVE PrintProblems(_)
PrintProblems(problems) ==
    IF problems = <<>> THEN <<>>
    ELSE PrintProblem(Head(problems)) \o PrintProblems(Tail(problems))

\* Diags::print: the lines it writes, one element for each println
DiagsPrint(problems) ==
    IF problems = <<>> THEN <<
            <<"n","o"," ","p","r","o","b","l","e","m","s"," ","f","o","u","n","d">>>>
    ELSE <<<<"s","o","m","e"," ","p","r","o","b","l","e","m","s"," ","w","e","r","e"," ","f",
             "o","u","n","d",":">>>> \o PrintProblems(problems)

\* NAMES with a bug: a name is missing
NAMES_WithoutLab07 ==
    <<<<"l","a","b","0","1">>, <<"l","a","b","0","2">>, <<"l","a","b","0","3">>,
            <<"l","a","b","0","4">>, <<"l","a","b","0","5">>, <<"l","a","b","0","6">>,
            <<"p","r","o","j","e","c","t">>>>

NAMES ==
    <<<<"l","a","b","0","1">>, <<"l","a","b","0","2">>, <<"l","a","b","0","3">>,
            <<"l","a","b","0","4">>,
      <<"l","a","b","0","5">>, <<"l","a","b","0","6">>, <<"l","a","b","0","7">>,
              <<"p","r","o","j","e","c","t">>>>

\* what a step gives back: its CheckResult ("Ok", "Err", or "Panic" when it
\* never returns), the Diags after it, and what it wrote to the console
Outcome(r, problems, console, events) ==
    [r |-> r, problems |-> problems, console |-> console, events |-> events]

validate_lab_name(problems, name) ==
    IF ~(\E i \in 1..Len(NAMES) : NAMES[i] = name)
    THEN LET text == <<Backquote>> \o name \o
            <<Backquote," ","i","s"," ","n","o","t"," ","a","n"," ","e","x","p","e","c","t",
              "e","d"," ","l","a","b"," ","n","a","m","e">>
             sep == <<","," ">>
             help == <<"e","x","p","e","c","t","e","d"," ","o","n","e"," ","o","f",":"," ">> \o Join(NAMES, sep)
         IN Outcome("Err", DiagsAdd(problems, text, None, Some(help)), <<>>, <<>>)
    ELSE Outcome("Ok", problems, <<>>, <<>>)

\* Result::and with a bug: the later result replaces the earlier one
ResultAndLast(a, b) == b

\* Result::and of two CheckResult
ResultAnd(a, b) == IF a = "Ok" THEN b ELSE a


\* struct Context.  checks.rs reads ctx.verbose, a field that main.rs neither
\* declares nor sets: its value is left open
Context(problems, repo_path, lab_path, verbose) ==
    [problems |-> problems, repo_path |-> repo_path, lab_path |-> lab_path,
     verbose |-> verbose]

----------------------------------------------------------------------------
(* checks.rs *)

CHECKS ==
    <<"check_gitignore", "check_commited_files", "check_lab_folder",
      "check_compiler_warnings", "check_clippy", "check_tests", "check_fmt">>

GitignoreHelp ==
    <<"y","o","u"," ","n","e","e","d"," ","t","o"," ","h","a","v","e"," ","a"," ","f","i","l",
      "e"," ","l","i","k","e"," ","t","h","i","s",":"," ","h","t","t","p","s",":","/","/","g",
      "i","t","h","u","b",".","c","o","m","/","x","T","a","c","h","y","o","n","/","r","u","s",
      "t","_","c","o","u","r","s","e","_","h","e","l","p","e","r","/","b","l","o","b","/","m",
      "a","i","n","/",".","g","i","t","i","g","n","o","r","e">>

\* check_gitignore with a bug: a line has to be the word, not to contain it
check_gitignore_whole_line(ctx, exists, read) ==
    LET gitignore_path == PathJoin(ctx.repo_path, <<".","g","i","t","i","g","n","o","r","e">>)
    IN IF ~exists
       THEN Outcome("Err",
                DiagsAdd(ctx.problems,
                        <<".","g","i","t","i","g","n","o","r","e"," ","d","o","e","s","n","'",
                          "t"," ","e","x","i","s","t">>,
                         Some(gitignore_path), Some(GitignoreHelp)),
                <<>>, <<>>)
       ELSE IF read[1] # "Ok"
       THEN Outcome("Err",
                DiagsAdd(ctx.problems,
                        <<"c","a","n","'","t"," ","r","e","a","d"," ","f","i","l","e">>,
                         Some(gitignore_path), None),
                <<>>, <<>>)
       ELSE LET lines == Lines(read[2])
            IN IF ~(\E k \in 1..Len(lines) : lines[k] = <<"t","a","r","g","e","t">>)
               THEN Outcome("Err",
                        DiagsAdd(ctx.problems,
                                <<"t","a","r","g","e","t"," ","f","o","l","d","e","r"," ","d",
                                  "o","e","s","n","'","t"," ","e","x","i","s","t"," ","i","n",
                                  " ",".","g","i","t","i","g","n","o","r","e">>,
                                 Some(gitignore_path), Some(GitignoreHelp)),
                        <<>>, <<>>)
               ELSE Outcome("Ok", ctx.problems, <<>>, <<>>)

\* exists: what Path::exists answers; read: what fs::read_to_string gives,
\* <<"Err">> or <<"Ok", text>>
check_gitignore(ctx, exists, read) ==
    LET gitignore_path == PathJoin(ctx.repo_path, <<".","g","i","t","i","g","n","o","r","e">>)
    IN IF ~exists
       THEN Outcome("Err",
                DiagsAdd(ctx.problems,
                        <<".","g","i","t","i","g","n","o","r","e"," ","d","o","e","s","n","'",
                          "t"," ","e","x","i","s","t">>,
                         Some(gitignore_path), Some(GitignoreHelp)),
                <<>>, <<>>)
       ELSE IF read[1] # "Ok"
       THEN Outcome("Err",
                DiagsAdd(ctx.problems,
                        <<"c","a","n","'","t"," ","r","e","a","d"," ","f","i","l","e">>,
                         Some(gitignore_path), None),
                <<>>, <<>>)
       ELSE LET lines == Lines(read[2])
            IN IF ~(\E k \in 1..Len(lines) : Contains(lines[k], <<"t","a","r","g","e","t">>))
               THEN Outcome("Err",
                        DiagsAdd(ctx.problems,
                                <<"t","a","r","g","e","t"," ","f","o","l","d","e","r"," ","d",
                                  "o","e","s","n","'","t"," ","e","x","i","s","t"," ","i","n",
                                  " ",".","g","i","t","i","g","n","o","r","e">>,
                                 Some(gitignore_path), Some(GitignoreHelp)),
                        <<>>, <<>>)
               ELSE Outcome("Ok", ctx.problems, <<>>, <<>>)

\* command_check_return with a bug: the failure is returned and not recorded
command_check_return_silent(ctx, name, e, text) ==
    IF ~Success(e)
    THEN Outcome("Err", ctx.problems, <<>>, <<"command_check_return">>)
    ELSE Outcome("Ok", ctx.problems, <<>>, <<"command_check_return">>)

\* e: the exit code of the process
command_check_return(ctx, name, e, text) ==
    IF ~Success(e)
    THEN Outcome("Err",
             DiagsAdd(ctx.problems,
                      text \o <<";"," ","c","o","m","m","a","n","d"," ",Backquote>> \o name \o
                              <<Backquote," ","f","a","i","l","e","d",":"," ">>
                      \o ExitStatusDisplay(e),
                      Some(ctx.repo_path), None),
             <<>>, <<"command_check_return">>)
    ELSE Outcome("Ok", ctx.problems, <<>>, <<"command_check_return">>)

EXTENSIONS ==
    <<<<".","e","x","e">>, <<".","d","l","l">>, <<".","p","d","b">>, <<".","l","i","b">>,
            <<".","o","b","j">>, <<".","s","o">>, <<".","d","y","l","i","b">>, <<".","a">>,
      <<".","o">>, <<".","r","l","i","b">>, <<".","r","m","e","t","a">>, <<".","d">>>>

max_lines == 20

\* BadFiles with a bug: the extension may be anywhere in the line
BadFilesContains(lines) ==
    SelectSeq(lines, LAMBDA line : \E x \in 1..Len(EXTENSIONS) : Contains(line, EXTENSIONS[x]))

\* the loop over stdout.lines(): a line is pushed once, at the first
\* extension it ends with
BadFiles(lines) ==
    SelectSeq(lines, LAMBDA line : \E x \in 1..Len(EXTENSIONS) : EndsWith(line, EXTENSIONS[x]))

Min(a, b) == IF a <= b THEN a ELSE b

\* BadFilesText with a bug: the suffix counts all the bad files
BadFilesTextCountsAll(bad_files) ==
    LET first_bad_files == SubSeq(bad_files, 1, Min(Len(bad_files), max_lines))
        text == <<"b","u","i","l","d"," ","f","i","l","e","s"," ","w","e","r","e"," ","f","o",
                  "u","n","d"," ","i","n"," ","t","h","e"," ","r","e","p","o","."," ","b","a",
                  "d"," ","f","i","l","e","s",":"," ">>
                \o Join(first_bad_files, <<"\n">>)
    IN IF Len(bad_files) > max_lines
       THEN text \o <<"\n",".",".","a","n","d"," ">> \o UsizeDisplay(Len(bad_files)) \o
               <<" ","m","o","r","e">>
       ELSE text

\* the message of check_commited_files for a non-empty bad_files
BadFilesText(bad_files) ==
    LET first_bad_files == SubSeq(bad_files, 1, Min(Len(bad_files), max_lines))
        text == <<"b","u","i","l","d"," ","f","i","l","e","s"," ","w","e","r","e"," ","f","o",
                  "u","n","d"," ","i","n"," ","t","h","e"," ","r","e","p","o","."," ","b","a",
                  "d"," ","f","i","l","e","s",":"," ">>
                \o Join(first_bad_files, <<"\n">>)
    IN IF Len(bad_files) > max_lines
       THEN text \o <<"\n",".",".","a","n","d"," ">> \o UsizeDisplay(Len(bad_files) - max_lines) \o
               <<" ","m","o","r","e">>
       ELSE text

\* output: what Command::output gives for `git ls-files`, <<"Err", e>> with
\* the text of the io::Error, or <<"Ok", o>> with o.status the exit code and
\* o.stdout the bytes written, [utf8, text]
check_commited_files(ctx, output) ==
    IF output[1] # "Ok"
    THEN Outcome("Err",
             DiagsAdd(ctx.problems, <<"g","i","t"," ","f","a","i","l","e","d",":"," ">> \o output[2],
                      Some(ctx.repo_path), None),
             <<>>, <<>>)
    ELSE LET o == output[2]
             checked == command_check_return(ctx, <<"g","i","t">>, o.status,
                     <<"f","a","i","l","e","d">>)
         IN IF checked.r # "Ok" THEN checked
            ELSE IF ~o.stdout.utf8
            THEN Outcome("Panic", ctx.problems, <<>>, checked.events)
            ELSE LET bad_files == BadFiles(Lines(o.stdout.text))
                 IN IF bad_files = <<>>
                    THEN Outcome("Ok", ctx.problems, <<>>, checked.events)
                    ELSE Outcome("Err",
                             DiagsAdd(ctx.problems, BadFilesText(bad_files),
                                      Some(ctx.repo_path),
                                      Some(<<"r","e","m","o","v","e"," ","t","a","r","g","e",
                                             "t"," ","d","i","r","e","c","t","o","r","i","e",
                                             "s"," ","a","n","d"," ","a","l","l"," ","b","u",
                                             "i","l","d"," ","a","r","t","i","f","a","c","t",
                                             "s">>)),
                             <<>>, checked.events)

\* exists: what Path::exists answers for the lab folder
check_lab_folder(ctx, exists) ==
    IF ~exists
    THEN Outcome("Err",
             DiagsAdd(ctx.problems,
                     <<"l","a","b"," ","f","o","l","d","e","r"," ","d","o","e","s","n","'",
                       "t"," ","e","x","i","s","t">>, Some(ctx.lab_path), None),
             <<>>, <<>>)
    ELSE Outcome("Ok", ctx.problems, <<>>, <<>>)

\* run_cargo with a bug: the output is written after the exit status was
\* checked, and so only when the command succeeded
run_cargo_echo_on_success(ctx, args, text, output) ==
    LET running ==
            <<"r","u","n","n","i","n","g"," ","c","o","m","m","a","n","d",":"," ","c","a","r",
              "g","o"," ">> \o Join(args, <<" ">>)
    IN IF output[1] # "Ok"
       THEN Outcome("Err",
                DiagsAdd(ctx.problems,
                         text \o <<";"," ","b","e","c","a","u","s","e",":"," ","c","a","r",
                                   "g","o"," ","f","a","i","l","e","d"," ","w","i","t","h",
                                   " ",Backquote>> \o output[2] \o <<Backquote>>,
                         Some(ctx.lab_path), None),
                <<running>>, <<"println running", "spawn failed">>)
       ELSE LET o == output[2]
                checked == command_check_return(ctx, <<"c","a","r","g","o">>, o.status, text)
            IN IF ~ctx.verbose \/ checked.r # "Ok"
               THEN Outcome(checked.r, checked.problems, <<running>>,
                            <<"println running">> \o checked.events)
               ELSE IF ~(o.stdout.utf8 /\ o.stderr.utf8)
               THEN Outcome("Panic", ctx.problems, <<running>>,
                            <<"println running">> \o checked.events)
               ELSE Outcome(checked.r, checked.problems,
                            <<running,
                              <<"s","t","d","o","u","t",":","\n">> \o o.stdout.text \o
                                      <<"s","t","d","e","r","r",":","\n">> \o o.stderr.text>>,
                            <<"println running">> \o checked.events \o <<"println output">>)

\* output: what spawn and wait_with_output give, <<"Err", e>> or <<"Ok", o>>
\* with o.status, o.stdout and o.stderr
run_cargo(ctx, args, text, output) ==
    LET running ==
            <<"r","u","n","n","i","n","g"," ","c","o","m","m","a","n","d",":"," ","c","a","r",
              "g","o"," ">> \o Join(args, <<" ">>)
    IN IF output[1] # "Ok"
       THEN Outcome("Err",
                DiagsAdd(ctx.problems,
                         text \o <<";"," ","b","e","c","a","u","s","e",":"," ","c","a","r",
                                   "g","o"," ","f","a","i","l","e","d"," ","w","i","t","h",
                                   " ",Backquote>> \o output[2] \o <<Backquote>>,
                         Some(ctx.lab_path), None),
                <<running>>, <<"println running", "spawn failed">>)
       ELSE LET o == output[2]
                checked == command_check_return(ctx, <<"c","a","r","g","o">>, o.status, text)
            IN IF ~ctx.verbose
               THEN Outcome(checked.r, checked.problems, <<running>>,
                            <<"println running">> \o checked.events)
               ELSE IF ~(o.stdout.utf8 /\ o.stderr.utf8)
               THEN Outcome("Panic", ctx.problems, <<running>>, <<"println running">>)
               ELSE Outcome(checked.r, checked.problems,
                            <<running,
                              <<"s","t","d","o","u","t",":","\n">> \o o.stdout.text \o
                                      <<"s","t","d","e","r","r",":","\n">> \o o.stderr.text>>,
                            <<"println running", "println output">> \o checked.events)

check_compiler_warnings(ctx, output) ==
    run_cargo(ctx, <<<<"b","u","i","l","d">>, <<"-","-","a","l","l">>, <<"-","q">>>>,
            <<"c","o","d","e"," ","h","a","s"," ","c","o","m","p","i","l","e","r"," ","w","a",
              "r","n","i","n","g","s">>, output)

check_clippy(ctx, output) ==
    run_cargo(ctx, <<<<"c","l","i","p","p","y">>, <<"-","-","a","l","l">>, <<"-","q">>>>,
            <<"c","o","d","e"," ","h","a","s"," ","c","l","i","p","p","y"," ","w","a","r","n",
              "i","n","g","s">>, output)

check_tests(ctx, output) ==
    run_cargo(ctx, <<<<"t","e","s","t">>, <<"-","-","a","l","l">>, <<"-","q">>>>,
            <<"c","o","d","e"," ","h","a","s"," ","f","a","i","l","e","d"," ","t","e","s","t",
              "s">>, output)

check_fmt(ctx, output) ==
    run_cargo(ctx, <<<<"f","m","t">>, <<"-","-","a","l","l">>, <<"-","-","c","h","e","c","k">>,
            <<"-","q">>>>,
            <<"c","o","d","e"," ","i","s"," ","n","o","t"," ","f","o","r","m","a","t","t","e",
              "d">>,
              output)

----------------------------------------------------------------------------
(* what the command line, the file system, git and cargo may answer *)

\* --repo
Repos == {<<"r","e","p","o">>}

\* --lab: the eight names of the labs, and some that are none of them
Labs ==
    {<<"l","a","b","0","1">>, <<"l","a","b","0","2">>, <<"l","a","b","0","3">>,
            <<"l","a","b","0","4">>, <<"l","a","b","0","5">>, <<"l","a","b","0","6">>,
            <<"l","a","b","0","7">>, <<"p","r","o","j","e","c","t">>,
     <<"l","a","b","9","9">>, <<"l","a","b","1">>, <<"L","a","b","0","1">>,
             <<"p","r","o","j","e","c","t","s">>, <<>>}

\* the text of an io::Error
IoErrors == {
        <<"N","o"," ","s","u","c","h"," ","f","i","l","e"," ","o","r"," ","d","i","r","e","c",
          "t","o","r","y"," ","(","o","s"," ","e","r","r","o","r"," ","2",")">>}

Bytes(utf8, text) == [utf8 |-> utf8, text |-> text]

NotUtf8 == Bytes(FALSE, <<>>)

\* the pieces a .gitignore is made of, and the texts of up to MaxPieces pieces
MaxPieces == 3

Pieces == {<<"t","a","r","g","e","t">>, <<"/","t","a","r","g","e","t","/">>, <<"t","a","r">>,
        <<"g","e","t">>, <<"\n">>, <<"\r","\n">>, <<"#"," ">>, <<"T","a","r","g","e","t">>}

RECURSIVE Texts(_)
Texts(n) ==
    IF n = 0 THEN {<<>>}
    ELSE LET shorter == Texts(n - 1)
         IN shorter \cup {t \o p : t \in shorter, p \in Pieces}

\* what fs::read_to_string may give when these are the texts of the file
Reads(texts) == {<<"Err">>} \cup {<<"Ok", t>> : t \in texts}

\* what `git ls-files` may answer
GitOutputs ==
    {<<"Err", e>> : e \in IoErrors}
    \cup {<<"Ok", [status |-> 128, stdout |-> Bytes(TRUE, <<>>)]>>,
          <<"Ok", [status |-> 0, stdout |-> NotUtf8]>>,
          <<"Ok", [status |-> 0, stdout |-> Bytes(TRUE,
                  <<"s","r","c","/","m","a","i","n",".","r","s","\n",".","g","i","t","i","g",
                    "n","o","r","e","\n">>)]>>,
          <<"Ok", [status |-> 0,
                   stdout |-> Bytes(TRUE,
                           <<"s","r","c","/","m","a","i","n",".","r","s","\n","b","u","i","l",
                             "d","/","o","u","t",".","o","\n","a",".","t","x","t","\n">>)]>>}

\* what running cargo may answer
CargoOutputs ==
    {<<"Err", e>> : e \in IoErrors}
    \cup {<<"Ok", [status |-> 0, stdout |-> Bytes(TRUE, <<>>), stderr |-> Bytes(TRUE, <<>>)]>>,
          <<"Ok", [status |-> 101, stdout |-> Bytes(TRUE, <<>>),
                   stderr |-> Bytes(TRUE,
                           <<"w","a","r","n","i","n","g",":"," ","u","n","u","s","e","d","\n">>)]>>,
          <<"Ok", [status |-> 0, stdout |-> NotUtf8, stderr |-> Bytes(TRUE, <<>>)]>>}

----------------------------------------------------------------------------
(* the run of main *)

VARIABLES
    args,       \* Args: repo and lab
    verbose,    \* ctx.verbose
    pc,         \* where main is: "main_impl", "checks", "print", "done", "panicked"
    i,          \* the index in CHECKS of the check the loop of main_impl runs next
    result,     \* result of main_impl
    problems,   \* Diags.problems
    lab_path,   \* Context.lab_path
    console,    \* the standard output, one element for each println
    exit_code,  \* the exit status of the process, None while it runs
    trace,      \* the calls made and what they returned, in order
    env         \* the answer of the environment to the last step

vars == <<args, verbose, pc, i, result, problems, lab_path, console, exit_code, trace, env>>

Init ==
    /\ args \in [repo : Repos, lab : Labs]
    /\ verbose \in BOOLEAN
    /\ pc = "main_impl"
    /\ i = 1
    /\ result = "Ok"
    /\ problems = <<>>
    /\ lab_path = <<>>
    /\ console = <<>>
    /\ exit_code = None
    /\ trace = <<>>
    /\ env = <<>>

\* the call of a step, what it did and what it returned
Called(name, out) ==
    <<<<"call", name>>>>
    \o [k \in 1..Len(out.events) |-> <<"do", out.events[k]>>]
    \o <<<<"ret", out.r>>>>

\* main_impl up to the loop: validate_lab_name with `?`, then the Context
MainImplValidate ==
    /\ pc = "main_impl"
    /\ LET out == validate_lab_name(problems, args.lab)
       IN /\ problems' = out.problems
          /\ trace' = trace \o Called("validate_lab_name", out)
          /\ IF out.r = "Ok"
             THEN /\ lab_path' = PathJoin(args.repo, args.lab)
                  /\ pc' = "checks"
                  /\ UNCHANGED result
             ELSE /\ result' = "Err"
                  /\ pc' = "print"
                  /\ UNCHANGED lab_path
    /\ UNCHANGED <<args, verbose, i, console, exit_code, env>>

\* the loop of main_impl is at the check `name`
Running(name) == pc = "checks" /\ CHECKS[i] = name

\* LoopTurn with a bug: the loop ends at the first check that fails
LoopTurnFailFast(name, input, out) ==
    /\ Running(name)
    /\ problems' = out.problems
    /\ console' = console \o out.console
    /\ trace' = trace \o Called(name, out)
    /\ IF out.r = "Panic"
       THEN /\ pc' = "panicked"
            /\ exit_code' = Some(101)
            /\ UNCHANGED <<result, i>>
       ELSE /\ result' = ResultAnd(result, out.r)
            /\ i' = i + 1
            /\ pc' = IF i = Len(CHECKS) \/ out.r = "Err" THEN "print" ELSE "checks"
            /\ UNCHANGED exit_code
    /\ env' = input
    /\ UNCHANGED <<args, verbose, lab_path>>

\* one turn of the loop of main_impl: f(&mut context), result.and(r); the
\* loop ends after the last check and main_impl returns result.  A check that
\* panics ends the process with the exit status of a panic
LoopTurn(name, input, out) ==
    /\ Running(name)
    /\ problems' = out.problems
    /\ console' = console \o out.console
    /\ trace' = trace \o Called(name, out)
    /\ IF out.r = "Panic"
       THEN /\ pc' = "panicked"
            /\ exit_code' = Some(101)
            /\ UNCHANGED <<result, i>>
       ELSE /\ result' = ResultAnd(result, out.r)
            /\ i' = i + 1
            /\ pc' = IF i = Len(CHECKS) THEN "print" ELSE "checks"
            /\ UNCHANGED exit_code
    /\ env' = input
    /\ UNCHANGED <<args, verbose, lab_path>>

Ctx == Context(problems, args.repo, lab_path, verbose)

CheckGitignore ==
    /\ Running("check_gitignore")
    /\ \E exists \in BOOLEAN, read \in Reads(Texts(1)) :
            LoopTurn("check_gitignore", <<exists, read>>, check_gitignore(Ctx, exists, read))

CheckCommitedFiles ==
    /\ Running("check_commited_files")
    /\ \E output \in GitOutputs :
            LoopTurn("check_commited_files", output, check_commited_files(Ctx, output))

CheckLabFolder ==
    /\ Running("check_lab_folder")
    /\ \E exists \in BOOLEAN :
            LoopTurn("check_lab_folder", <<exists>>, check_lab_folder(Ctx, exists))

CheckCompilerWarnings ==
    /\ Running("check_compiler_warnings")
    /\ \E output \in CargoOutputs :
            LoopTurn("check_compiler_warnings", output, check_compiler_warnings(Ctx, output))

CheckClippy ==
    /\ Running("check_clippy")
    /\ \E output \in CargoOutputs : LoopTurn("check_clippy", output, check_clippy(Ctx, output))

CheckTests ==
    /\ Running("check_tests")
    /\ \E output \in CargoOutputs : LoopTurn("check_tests", output, check_tests(Ctx, output))

CheckFmt ==
    /\ Running("check_fmt")
    /\ \E output \in CargoOutputs : LoopTurn("check_fmt", output, check_fmt(Ctx, output))

\* main after main_impl: problems.print(), the line with the result, and the
\* ExitCode (SUCCESS is 0, FAILURE is 1)
MainFinish ==
    /\ pc = "print"
    /\ console' = console \o DiagsPrint(problems)
                  \o <<<<"\n","c","h","e","c","k","e","r"," ","f","i","n","i","s","h","e","d",
                         " ","w","i","t","h"," ","r","e","s","u","l","t",":"," ">>
                       \o (IF result = "Ok" THEN <<"s","u","c","c","e","s","s">> ELSE
                               <<"f","a","i","l","u","r","e">>)>>
    /\ trace' = trace \o <<<<"call", "print">>>>
    /\ exit_code' = Some(IF result = "Ok" THEN 0 ELSE 1)
    /\ pc' = "done"
    /\ UNCHANGED <<args, verbose, i, result, problems, lab_path, env>>

Next ==
    \/ MainImplValidate
    \/ CheckGitignore
    \/ CheckCommitedFiles
    \/ CheckLabFolder
    \/ CheckCompilerWarnings
    \/ CheckClippy
    \/ CheckTests
    \/ CheckFmt
    \/ MainFinish

Spec == Init /\ [][Next]_vars

----------------------------------------------------------------------------
(* one check called on its own, on a Context made for the call *)

UnitRepos == {<<"r","e","p","o">>, <<"/","s","r","v","/","r","/">>}

\* the Diags the call starts from: empty, or holding a Diag of an earlier step
UnitProblems == {<<>>, <<Diag(
        <<"l","a","b"," ","f","o","l","d","e","r"," ","d","o","e","s","n","'","t"," ","e","x",
          "i","s","t">>, Some(<<"r","e","p","o","/","l","a","b","0","1">>), None)>>}

\* paths of tracked files, with and without a build extension at the end
SamplePaths ==
    {<<"s","r","c","/","m","a","i","n",".","r","s">>,
            <<"b","u","i","l","d","/","o","u","t",".","o">>, <<"a",".","t","x","t">>,
            <<"m","a","i","n",".","e","x","e">>, <<"x",".","s","o",".","1">>, <<"o">>,
            <<".","d">>,
     <<"n","o","t","e","s",".","m","d">>,
             <<"t","a","r","g","e","t","/","l","i","b","x",".","r","l","i","b">>,
             <<"a",".","o","u","t">>, <<"l","i","b","/","x",".","a">>,
             <<"x",".","d","y","l","i","b",".","b","a","k">>}

\* the tracked files of up to MaxShort sample paths
MaxShort == 2

RECURSIVE Lists(_)
Lists(n) ==
    IF n = 0 THEN {<<>>}
    ELSE LET shorter == Lists(n - 1)
         IN shorter \cup {Append(l, p) : l \in shorter, p \in SamplePaths}

\* the tracked files of up to MaxFiles numbered files: all of them build
\* files, or every third one a source file
MaxFiles == 25

NumberedFile(k, mixed) ==
    <<"t","/","f">> \o UsizeDisplay(k)
    \o (IF mixed /\ k % 3 = 0 THEN <<".","r","s">>
        ELSE <<<<".","o">>, <<".","r","l","i","b">>, <<".","d">>, <<".","e","x","e">>,
                <<".","r","m","e","t","a">>>>[(k % 5) + 1])

NumberedLists == {[k \in 1..n |-> NumberedFile(k, mixed)] : n \in 0..MaxFiles, mixed \in BOOLEAN}

TrackedLists ==
    Lists(MaxShort) \cup NumberedLists \cup {<<<<"s","r","c","/","m","a","i","n",".","r","s">>,
            <<"b","u","i","l","d","/","o","u","t",".","o">>, <<"a",".","t","x","t">>>>}

\* what `git ls-files` writes for a list of tracked files: one path a line
RECURSIVE Unlines(_)
Unlines(l) == IF l = <<>> THEN <<>> ELSE Head(l) \o <<"\n">> \o Unlines(Tail(l))

UnitGitOutputs ==
    GitOutputs
    \cup {<<"Ok", [status |-> 0, stdout |-> Bytes(TRUE, Unlines(l))]>> : l \in TrackedLists}

InitUnit ==
    /\ args \in [repo : UnitRepos, lab : {<<"l","a","b","0","1">>}]
    /\ verbose = FALSE
    /\ pc = "unit"
    /\ i = 1
    /\ result = "Ok"
    /\ problems \in UnitProblems
    /\ lab_path = PathJoin(args.repo, args.lab)
    /\ console = <<>>
    /\ exit_code = None
    /\ trace = <<>>
    /\ env = <<>>

\* the call of a check with the answer `input` of the environment
Returned(name, input, out) ==
    /\ pc = "unit"
    /\ problems' = out.problems
    /\ console' = console \o out.console
    /\ trace' = trace \o Called(name, out)
    /\ result' = out.r
    /\ env' = input
    /\ pc' = "returned"
    /\ UNCHANGED <<args, verbose, i, lab_path, exit_code>>

UnitGitignore ==
    /\ pc = "unit"
    /\ \E exists \in BOOLEAN, read \in Reads(Texts(MaxPieces)) :
            Returned("check_gitignore", <<exists, read>>, check_gitignore(Ctx, exists, read))

UnitCommitedFiles ==
    /\ pc = "unit"
    /\ \E output \in UnitGitOutputs :
            Returned("check_commited_files", output, check_commited_files(Ctx, output))

NextUnit ==
    \/ UnitGitignore
    \/ UnitCommitedFiles

SpecUnit == InitUnit /\ [][NextUnit]_vars

----------------------------------------------------------------------------
(* the checks on their own: check_gitignore and check_commited_files *)

Last(s) == s[Len(s)]

Front(s) == SubSeq(s, 1, Len(s) - 1)

ReturnedFrom(name) == pc = "returned" /\ trace[1] = <<"call", name>>

\* C7: check_gitignore succeeds if and only if .gitignore exists, can be read
\* and its text holds "target" (which, holding no line ending, is then in one
\* line); when it fails, for each of the three reasons, it adds one Diag, and
\* that Diag carries the path of the .gitignore of the repository
C7_GitignoreSucceedsIffTarget ==
    ReturnedFrom("check_gitignore") =>
        LET exists == env[1]
            read == env[2]
            good == exists /\ read[1] = "Ok" /\ Contains(read[2], <<"t","a","r","g","e","t">>)
        IN /\ result = "Ok" <=> good
           /\ result = "Ok" => problems \in UnitProblems
           /\ ~good =>
                /\ result = "Err"
                /\ problems # <<>>
                /\ Front(problems) \in UnitProblems
                /\ Last(problems).path
                     = Some(IF args.repo = <<"r","e","p","o">> THEN
                             <<"r","e","p","o","/",".","g","i","t","i","g","n","o","r","e">>
                            ELSE <<"/","s","r","v","/","r","/",".","g","i","t","i","g","n",
                                   "o","r","e">>)

\* C7, its case: a .gitignore that is there and is read, with the letters of
\* "target" on two lines, fails with the path of the file
C7_Witness ==
    /\ ReturnedFrom("check_gitignore")
    /\ env = <<TRUE, <<"Ok", <<"t","a","r","\n","g","e","t">>>>>>
    /\ args.repo = <<"/","s","r","v","/","r","/">>
    /\ result = "Err"
    /\ Last(problems).path = Some(
            <<"/","s","r","v","/","r","/",".","g","i","t","i","g","n","o","r","e">>)

\* `git ls-files` ran, exited with 0 and wrote text
GitRan ==
    /\ ReturnedFrom("check_commited_files")
    /\ env[1] = "Ok"
    /\ env[2].status = 0
    /\ env[2].stdout.utf8

\* the tracked files: the lines git wrote
Tracked == Lines(env[2].stdout.text)

TwelveExtensions ==
    {<<".","e","x","e">>, <<".","d","l","l">>, <<".","p","d","b">>, <<".","l","i","b">>,
            <<".","o","b","j">>, <<".","s","o">>, <<".","d","y","l","i","b">>, <<".","a">>,
            <<".","o">>,
     <<".","r","l","i","b">>, <<".","r","m","e","t","a">>, <<".","d">>}

\* the tracked files that end in one of the twelve extensions, in their order
Matching == SelectSeq(Tracked, LAMBDA path : \E x \in TwelveExtensions : EndsWith(path, x))

BadFilesPrefix ==
        <<"b","u","i","l","d"," ","f","i","l","e","s"," ","w","e","r","e"," ","f","o","u","n",
          "d"," ","i","n"," ","t","h","e"," ","r","e","p","o","."," ","b","a","d"," ","f","i",
          "l","e","s",":"," ">>

\* the lines of the message after its first words
Listed ==
    LET text == Last(problems).text
    IN Lines(SubSeq(text, Len(BadFilesPrefix) + 1, Len(text)))

FailedWithList ==
    /\ result = "Err"
    /\ problems # <<>>
    /\ Front(problems) \in UnitProblems
    /\ StartsWith(Last(problems).text, BadFilesPrefix)

TracksAPath(line) == \E k \in 1..Len(Tracked) : Tracked[k] = line

\* C5 as it is stated: the check fails if and only if a tracked file ends in
\* one of the twelve extensions, and the message then lists exactly the
\* matching paths, each once, in their order
C5_ListsExactlyTheMatchingPaths ==
    GitRan =>
        /\ result = "Err" <=> Matching # <<>>
        /\ result = "Err" => FailedWithList /\ Listed = Matching

\* C5, amended: the check fails if and only if a tracked file ends in one of
\* the twelve extensions, and the message then lists exactly the first 20 of
\* the matching paths (all of them when there are at most 20), each once, in
\* their order, and no other tracked path
C5_ListsTheFirstMatchingPaths ==
    GitRan =>
        /\ result = "Err" <=> Matching # <<>>
        /\ result = "Ok" => problems \in UnitProblems
        /\ result = "Err" =>
             LET shown == Min(Len(Matching), 20)
             IN /\ FailedWithList
                /\ Len(Listed) >= shown
                /\ SubSeq(Listed, 1, shown) = SubSeq(Matching, 1, shown)
                /\ \A k \in (shown + 1)..Len(Listed) : ~TracksAPath(Listed[k])

\* C5, its case: of src/main.rs, build/out.o and a.txt the message lists
\* build/out.o alone
C5_Witness ==
    /\ GitRan
    /\ Tracked = <<<<"s","r","c","/","m","a","i","n",".","r","s">>,
            <<"b","u","i","l","d","/","o","u","t",".","o">>, <<"a",".","t","x","t">>>>
    /\ result = "Err"
    /\ Listed = <<<<"b","u","i","l","d","/","o","u","t",".","o">>>>

\* C6 as it is stated: with n matching files the message lists the first
\* min(n, 20) of them, ends with "...and N more", N = n - 20, when n > 20, and
\* has no such suffix when n <= 20
C6_ThreeDotsSuffix ==
    (GitRan /\ Matching # <<>>) =>
        LET n == Len(Matching)
            shown == Min(n, 20)
            text == Last(problems).text
        IN /\ FailedWithList
           /\ SubSeq(Listed, 1, shown) = SubSeq(Matching, 1, shown)
           /\ n > 20 => EndsWith(text, <<".",".",".","a","n","d"," ">> \o UsizeDisplay(n - 20) \o
                   <<" ","m","o","r","e">>)
           /\ n <= 20 => Len(Listed) = n /\ ~EndsWith(text, <<" ","m","o","r","e">>)

\* C6, amended: with n matching files the message lists the first min(n, 20)
\* of them; when n > 20 it ends with one more line, "..and N more" (two
\* dots), N = n - 20, and when n <= 20 the last listed file ends it
C6_TwoDotsSuffix ==
    (GitRan /\ Matching # <<>>) =>
        LET n == Len(Matching)
            shown == Min(n, 20)
            text == Last(problems).text
        IN /\ FailedWithList
           /\ SubSeq(Listed, 1, shown) = SubSeq(Matching, 1, shown)
           /\ n > 20 =>
                /\ Listed = SubSeq(Matching, 1, 20)
                              \o <<<<".",".","a","n","d"," ">> \o UsizeDisplay(n - 20) \o
                                      <<" ","m","o","r","e">>>>
                /\ EndsWith(text, <<"\n",".",".","a","n","d"," ">> \o UsizeDisplay(n - 20) \o
                        <<" ","m","o","r","e">>)
                /\ ~EndsWith(text, <<".",".",".","a","n","d"," ">> \o UsizeDisplay(n - 20) \o
                        <<" ","m","o","r","e">>)
           /\ n <= 20 => Listed = Matching /\ ~EndsWith(text, <<" ","m","o","r","e">>)

\* C6, its case: 25 matching files, the first 20 listed, and "..and 5 more"
C6_Witness ==
    /\ GitRan
    /\ Len(Matching) = 25
    /\ result = "Err"
    /\ SubSeq(Listed, 1, 20) = SubSeq(Matching, 1, 20)
    /\ Last(Listed) = <<".",".","a","n","d"," ","5"," ","m","o","r","e">>

----------------------------------------------------------------------------
(* the run of main: what was called, what came back, what was printed *)

IsPrefix(a, b) == Len(a) <= Len(b) /\ SubSeq(b, 1, Len(a)) = a

\* the second parts of the entries of the trace that have `kind` as the first
Entries(kind) ==
    LET picked == SelectSeq(trace, LAMBDA e : e[1] = kind)
    IN [k \in 1..Len(picked) |-> picked[k][2]]

\* the check functions called so far, and what the calls returned
ChecksCalled ==
    SelectSeq(Entries("call"), LAMBDA name : name \notin {"validate_lab_name", "print"})

Returns == Entries("ret")

CheckReturns == Tail(Returns)

LabNameValid == Returns # <<>> /\ Returns[1] = "Ok"

MainImplReturned == pc \in {"print", "done"}

SevenChecks ==
    <<"check_gitignore", "check_commited_files", "check_lab_folder",
      "check_compiler_warnings", "check_clippy", "check_tests", "check_fmt">>

\* C1: the checks are called in the order of the list, none twice and none
\* skipped: after a valid lab name the next check of the list runs whatever
\* the earlier ones returned, and when main_impl returns all seven were called
\* once each, its result a failure if a check failed and a success if none did
C1_EveryCheckRunsOnceInOrder ==
    /\ IsPrefix(ChecksCalled, SevenChecks)
    /\ pc = "checks" => LabNameValid /\ Len(ChecksCalled) = i - 1 /\ Len(CheckReturns) = i - 1
    /\ (MainImplReturned /\ LabNameValid) =>
         /\ ChecksCalled = SevenChecks
         /\ Len(CheckReturns) = 7
         /\ result = "Err" <=> \E k \in 1..7 : CheckReturns[k] = "Err"
         /\ result = "Ok" <=> \A k \in 1..7 : CheckReturns[k] = "Ok"

\* C1, its case: the first check failed, the other six ran and succeeded, and
\* the result is a failure
C1_Witness ==
    /\ pc = "done"
    /\ ChecksCalled = SevenChecks
    /\ CheckReturns = <<"Err", "Ok", "Ok", "Ok", "Ok", "Ok", "Ok">>
    /\ result = "Err"

EightNames ==
    {<<"l","a","b","0","1">>, <<"l","a","b","0","2">>, <<"l","a","b","0","3">>,
            <<"l","a","b","0","4">>, <<"l","a","b","0","5">>, <<"l","a","b","0","6">>,
            <<"l","a","b","0","7">>, <<"p","r","o","j","e","c","t">>}

\* C2: validate_lab_name returns Ok and records nothing exactly for the eight
\* names; for any other name it records one Diag, whose help names the eight,
\* main_impl returns a failure at once, no check is ever called, and the run
\* ends with the exit status of a failure
C2_LabNameDecidesTheRun ==
    pc # "main_impl" =>
        /\ LabNameValid <=> args.lab \in EightNames
        /\ (pc = "checks" /\ i = 1) => LabNameValid /\ problems = <<>>
        /\ ~LabNameValid =>
             /\ pc \in {"print", "done"}
             /\ result = "Err"
             /\ ChecksCalled = <<>>
             /\ Len(problems) = 1
             /\ problems[1].help
                  = Some(<<"e","x","p","e","c","t","e","d"," ","o","n","e"," ","o","f",":",
                           " ","l","a","b","0","1",","," ","l","a","b","0","2",","," ","l",
                           "a","b","0","3",","," ","l","a","b","0","4",","," ","l","a","b",
                           "0","5",","," ","l","a","b","0","6",","," ","l","a","b","0","7",
                           ","," ","p","r","o","j","e","c","t">>)
             /\ pc = "done" => exit_code = Some(1)

\* C2, its case: lab99 is refused, and the run is over with one Diag
C2_Witness ==
    /\ pc = "done"
    /\ args.lab = <<"l","a","b","9","9">>
    /\ Len(problems) = 1
    /\ trace = <<<<"call", "validate_lab_name">>, <<"ret", "Err">>, <<"call", "print">>>>
    /\ exit_code = Some(1)

\* C3: a run that main returns from ends with the exit status 0 when the lab
\* name and all the checks succeeded and 1 when one of them failed, and with
\* 1 if and only if a Diag was recorded; before that the process has no exit
\* status
C3_ExitStatusTellsFailure ==
    /\ pc \in {"main_impl", "checks", "print"} => exit_code = None
    /\ pc = "done" =>
         /\ exit_code \in {Some(0), Some(1)}
         /\ exit_code = Some(0) <=> \A k \in 1..Len(Returns) : Returns[k] = "Ok"
         /\ exit_code = Some(1) <=> \E k \in 1..Len(Returns) : Returns[k] = "Err"
         /\ exit_code = Some(1) <=> problems # <<>>
         /\ exit_code = Some(0) => Len(Returns) = 8

\* C3, its case: the lab name and six checks are fine, check_clippy is not
C3_Witness ==
    /\ pc = "done"
    /\ Returns = <<"Ok", "Ok", "Ok", "Ok", "Ok", "Err", "Ok", "Ok">>
    /\ Len(problems) = 1
    /\ exit_code = Some(1)

\* how many of the calls so far returned a failure
RECURSIVE Failures(_)
Failures(rets) ==
    IF rets = <<>> THEN 0 ELSE (IF Head(rets) = "Err" THEN 1 ELSE 0) + Failures(Tail(rets))

\* C4: after every call of validate_lab_name and of a check there are as many
\* Diags as calls that returned a failure, so a call that fails adds one Diag
\* and a call that succeeds adds none, on every path a failure takes
C4_OneDiagPerFailure ==
    /\ Len(problems) = Failures(Returns)
    /\ Len(Returns) = Len(Entries("call")) - (IF pc = "done" THEN 1 ELSE 0)

\* C4, its case: git exits with 128, cargo cannot be spawned for clippy, and
\* the run ends with these two Diags
C4_Witness ==
    /\ pc = "done"
    /\ Len(problems) = 2
    /\ problems[1].text =
            <<"f","a","i","l","e","d",";"," ","c","o","m","m","a","n","d"," ",Backquote,"g",
              "i","t",Backquote," ","f","a","i","l","e","d",":"," ","e","x","i","t"," ","s",
              "t","a","t","u","s",":"," ","1","2","8">>
    /\ problems[2].text
         = <<"c","o","d","e"," ","h","a","s"," ","c","l","i","p","p","y"," ","w","a","r","n",
             "i","n","g","s",";"," ","b","e","c","a","u","s","e",":"," ","c","a","r","g","o",
             " ","f","a","i","l","e","d"," ","w","i","t","h"," ",Backquote,"N","o"," ","s",
             "u","c","h"," ","f","i","l","e"," ","o","r"," ","d","i","r","e","c","t","o","r",
             "y"," ","(","o","s"," ","e","r","r","o","r"," ","2",")",Backquote>>
    /\ Returns = <<"Ok", "Ok", "Err", "Ok", "Ok", "Err", "Ok", "Ok">>

JustFailed == trace # <<>> /\ Last(trace) = <<"ret", "Err">>

\* C8 as it is stated: a Diag of the gitignore check carries the help with
\* the link to the reference .gitignore, whatever made the check fail, and a
\* Diag of the lab folder check or of a cargo check carries no help
C8_GitignoreDiagHasTheLink ==
    /\ (pc = "checks" /\ i = 2 /\ JustFailed) =>
         /\ Last(problems).help # None
         /\ Contains(Last(problems).help[1],
                     <<"h","t","t","p","s",":","/","/","g","i","t","h","u","b",".","c","o",
                       "m","/","x","T","a","c","h","y","o","n","/","r","u","s","t","_","c",
                       "o","u","r","s","e","_","h","e","l","p","e","r","/","b","l","o","b",
                       "/","m","a","i","n","/",".","g","i","t","i","g","n","o","r","e">>)
    /\ (pc \in {"checks", "print"} /\ i \in 4..8 /\ JustFailed) => Last(problems).help = None

\* the entries of the trace from the last call on
SinceLastCall ==
    LET at == CHOOSE k \in 1..Len(trace) :
                  trace[k][1] = "call" /\ \A j \in (k + 1)..Len(trace) : trace[j][1] # "call"
    IN [k \in 1..(Len(trace) - at + 1) |-> trace[at + k - 1][2]]

CargoChecks == {"check_compiler_warnings", "check_clippy", "check_tests", "check_fmt"}

AfterCargo == trace # <<>> /\ SinceLastCall[1] \in CargoChecks

Echoed(line) == StartsWith(line, <<"s","t","d","o","u","t",":","\n">>) /\ Contains(line,
        <<"s","t","d","e","r","r",":","\n">>)

CommandLine(line) == StartsWith(line,
        <<"r","u","n","n","i","n","g"," ","c","o","m","m","a","n","d",":"," ","c","a","r","g",
          "o"," ">>)

\* C9: in a cargo check, if cargo cannot be spawned nothing is echoed and the
\* Diag carries the error of the system; if cargo ran and verbose is set, what
\* it wrote is echoed, and before the exit status is looked at, whether the
\* status is 0 or not; if verbose is not set nothing is ever echoed
C9_OutputEchoedBeforeTheStatus ==
    /\ ~verbose => SelectSeq(console, Echoed) = <<>>
    /\ AfterCargo =>
        LET did == SinceLastCall
            r == Last(did)
            spawned == env[1] = "Ok"
            o == env[2]
        IN /\ ~spawned =>
                /\ did = <<did[1], "println running", "spawn failed", "Err">>
                /\ CommandLine(Last(console))
                /\ EndsWith(Last(problems).text,
                            <<";"," ","b","e","c","a","u","s","e",":"," ","c","a","r","g","o",
                              " ","f","a","i","l","e","d"," ","w","i","t","h"," ",Backquote>>
                            \o env[2] \o <<Backquote>>)
                /\ Last(problems).help = None
           /\ (spawned /\ verbose /\ o.stdout.utf8 /\ o.stderr.utf8) =>
                /\ did = <<did[1], "println running", "println output",
                           "command_check_return", r>>
                /\ r = "Ok" <=> o.status = 0
                /\ r = "Err" <=> o.status # 0
                /\ Last(console) = <<"s","t","d","o","u","t",":","\n">> \o o.stdout.text \o
                        <<"s","t","d","e","r","r",":","\n">> \o o.stderr.text
                /\ CommandLine(console[Len(console) - 1])
           /\ (spawned /\ verbose /\ ~(o.stdout.utf8 /\ o.stderr.utf8)) =>
                /\ pc = "panicked"
                /\ CommandLine(Last(console))
           /\ (spawned /\ ~verbose) =>
                /\ did = <<did[1], "println running", "command_check_return", r>>
                /\ r = "Ok" <=> o.status = 0
                /\ r = "Err" <=> o.status # 0
                /\ CommandLine(Last(console))

\* C9, its case: verbose is set, the tests fail, and what cargo wrote is on
\* the console before the Diag is made
C9_Witness ==
    /\ verbose
    /\ AfterCargo
    /\ SinceLastCall
         = <<"check_tests", "println running", "println output", "command_check_return", "Err">>
    /\ env[2].status = 101
    /\ Last(console) =
            <<"s","t","d","o","u","t",":","\n","s","t","d","e","r","r",":","\n","w","a","r",
              "n","i","n","g",":"," ","u","n","u","s","e","d","\n">>
    /\ Contains(Last(problems).text,
            <<"c","o","m","m","a","n","d"," ",Backquote,"c","a","r","g","o",Backquote," ","f",
              "a","i","l","e","d",":"," ","e","x","i","t"," ","s","t","a","t","u","s",":"," ",
              "1","0","1">>)

Prints == Len(SelectSeq(trace, LAMBDA e : e = <<"call", "print">>))

Labelled(label) == SelectSeq(console, LAMBDA line : StartsWith(line, label))

HeaderLine ==
        <<"s","o","m","e"," ","p","r","o","b","l","e","m","s"," ","w","e","r","e"," ","f","o",
          "u","n","d",":">>

\* the report as it should be: what is on the console from the header on,
\* but for the last line, is made of error, path and help lines alone, the
\* error lines being the texts of the Diags in their order
ReportOf(ps) ==
    LET errors == Labelled(<<"e","r","r","o","r",":"," ">>)
        header == CHOOSE k \in 1..Len(console) : console[k] = HeaderLine
        body == SubSeq(console, header + 1, Len(console) - 1)
    IN /\ Len(SelectSeq(console, LAMBDA line : line = HeaderLine)) = 1
       /\ errors = [k \in 1..Len(ps) |-> <<"e","r","r","o","r",":"," ">> \o ps[k].text]
       /\ body # <<>> /\ StartsWith(body[1], <<"e","r","r","o","r",":"," ">>)
       /\ \A k \in 1..Len(body) :
            \/ StartsWith(body[k], <<"e","r","r","o","r",":"," ">>)
            \/ StartsWith(body[k], <<"p","a","t","h",":"," ">>)
            \/ StartsWith(body[k], <<"h","e","l","p",":"," ">>)
       /\ Labelled(<<"p","a","t","h",":"," ">>)
            = [k \in 1..Len(SelectSeq(ps, LAMBDA d : d.path # None))
                 |-> <<"p","a","t","h",":"," ">>
                     \o SelectSeq(ps, LAMBDA d : d.path # None)[k].path[1]]
       /\ Labelled(<<"h","e","l","p",":"," ">>)
            = [k \in 1..Len(SelectSeq(ps, LAMBDA d : d.help # None))
                 |-> <<"h","e","l","p",":"," ">>
                     \o SelectSeq(ps, LAMBDA d : d.help # None)[k].help[1]]

\* the report is printed once, when the run is over and not before
RenderedOnce ==
    /\ pc # "done" => Prints = 0 /\ Labelled(<<"e","r","r","o","r",":"," ">>) = <<>>
    /\ pc = "done" =>
         /\ Prints = 1
         /\ Last(trace) = <<"call", "print">>
         /\ IF problems = <<>>
            THEN /\ console[Len(console) - 1] =
                    <<"n","o"," ","p","r","o","b","l","e","m","s"," ","f","o","u","n","d">>
                 /\ Labelled(<<"e","r","r","o","r",":"," ">>) = <<>>
                 /\ Len(SelectSeq(console, LAMBDA line : line = HeaderLine)) = 0
            ELSE ReportOf(problems)

\* C10: the collection starts empty and a step only adds at its end, at most
\* one Diag, leaving what is recorded as it is; the report is printed once, at
\* the end of a run that main returns from (also after a refused lab name):
\* the one line when there is no Diag, else the header and a block for each
\* Diag in the order they were recorded
C10_AppendOnlyAndRenderedOnce ==
    /\ [](pc = "main_impl" => problems = <<>>)
    /\ [][IsPrefix(problems, problems') /\ Len(problems') <= Len(problems) + 1]_vars
    /\ []RenderedOnce

\* C10, its case: three steps failed and the report shows their three Diags
C10_Witness ==
    /\ pc = "done"
    /\ Len(problems) = 3
    /\ ReportOf(problems)
    /\ Len(Labelled(<<"e","r","r","o","r",":"," ">>)) = 3
    /\ problems[1].text =
            <<".","g","i","t","i","g","n","o","r","e"," ","d","o","e","s","n","'","t"," ","e",
              "x","i","s","t">>
    /\ problems[3].text =
            <<"c","o","d","e"," ","i","s"," ","n","o","t"," ","f","o","r","m","a","t","t","e",
              "d",";"," ","c","o","m","m","a","n","d"," ",Backquote,"c","a","r","g","o",
              Backquote," ","f","a","i","l","e","d",":"," ","e","x","i","t"," ","s","t","a",
              "t","u","s",":"," ","1","0","1">>

====
